---- MODULE Spec2Model ----
(***************************************************************************)
(* Place verification and route pipeline of the Amble AI web app.          *)
(*                                                                         *)
(*   lib/places-verification.js  verifyPlace, findBestMatch,               *)
(*                               calculateMatchConfidence,                 *)
(*                               calculateStringSimilarity, verifyAllPlaces*)
(*   lib/gemini.js               generatePlaces                            *)
(*   lib/routes-optimization.js  optimizeRouteOrder                        *)
(*                                                                         *)
(* Strings are sequences of one-character strings.  Scores are JavaScript  *)
(* numbers in the source; here they are exact rationals with the common    *)
(* denominator Unit, so 0.3 is Weight(300) and 1.0 is Unit.                 *)
(***************************************************************************)
EXTENDS Integers, Sequences, FiniteSets, TLC

(***************************************************************************)
(* Bounds.                                                                 *)
(***************************************************************************)
\* Largest number of mentions in one batch.
MaxMentions == 3
\* Largest number of candidates in the search response of a single
\* verifyPlace call.
MaxCandidates == 4

\* longest string passed to calculateStringSimilarity on its own
MaxStrLen == 3

\* longest stop list passed to optimizeRouteOrder on its own
MaxStops == 5

\* longest stop list passed to a link builder on its own
MaxLinkStops == 3

(***************************************************************************)
(* Score arithmetic.  Unit is 1000 * lcm(1..15): thousandths for the       *)
(* weights (0.025 is the finest), and every string length and word count   *)
(* up to 15 divides it, so similarity and word ratios are exact.           *)
(***************************************************************************)
Unit == 1000 * 360360

\* w thousandths, e.g. Weight(600) is 0.6
Weight(w) == w * (Unit \div 1000)

Min2(a, b) == IF a < b THEN a ELSE b
Max2(a, b) == IF a > b THEN a ELSE b

(***************************************************************************)
(* JavaScript string primitives used by the scorer.                        *)
(***************************************************************************)
Uppers == <<"A","B","C","D","E","F","G","H","I","J","K","L","M",
            "N","O","P","Q","R","S","T","U","V","W","X","Y","Z">>
Lowers == <<"a","b","c","d","e","f","g","h","i","j","k","l","m",
            "n","o","p","q","r","s","t","u","v","w","x","y","z">>

LowerChar(c) ==
  IF \E i \in 1..Len(Uppers) : Uppers[i] = c
  THEN Lowers[CHOOSE i \in 1..Len(Uppers) : Uppers[i] = c]
  ELSE c

\* String.prototype.toLowerCase
ToLowerCase(s) == [i \in 1..Len(s) |-> LowerChar(s[i])]

\* mutant: the empty string is contained in no string
IncludesNonEmpty(s, t) ==
  /\ Len(t) > 0
  /\ \E k \in 0..(Len(s) - Len(t)) :
       \A i \in 1..Len(t) : s[k + i] = t[i]

\* String.prototype.includes: t occurs in s as a contiguous run
Includes(s, t) ==
  \E k \in 0..(Len(s) - Len(t)) :
     \A i \in 1..Len(t) : s[k + i] = t[i]

\* the separator class [\s\(\)] of the split regular expression
IsSeparator(c) == c \in {" ", "(", ")"}

RECURSIVE SplitFrom(_, _, _)
\* s.split(/[\s\(\)]+/) followed by filter(w => w.length > 2): the maximal
\* runs of non-separator characters, in order, longer than two characters
\* (the empty strings split yields at a leading or trailing separator are
\* removed by the filter).
SplitFrom(s, i, cur) ==
  IF i > Len(s)
  THEN IF Len(cur) > 2 THEN <<cur>> ELSE <<>>
  ELSE IF IsSeparator(s[i])
       THEN (IF Len(cur) > 2 THEN <<cur>> ELSE <<>>) \o SplitFrom(s, i + 1, <<>>)
       ELSE SplitFrom(s, i + 1, Append(cur, s[i]))

LongWords(s) == SplitFrom(s, 1, <<>>)

(***************************************************************************)
(* calculateStringSimilarity: Levenshtein matrix, row i over str2 and      *)
(* column j over str1.  A row is the sequence matrix[i][0..len1], stored   *)
(* at positions 1..len1+1.                                                 *)
(***************************************************************************)
RECURSIVE FillRow(_, _, _, _, _)
FillRow(str1, str2, i, prev, row) ==
  LET j == Len(row) IN
  IF j > Len(str1) THEN row
  ELSE LET cell == IF str2[i] = str1[j]
                   THEN prev[j]
                   ELSE Min2(prev[j] + 1, Min2(row[j] + 1, prev[j + 1] + 1))
       IN FillRow(str1, str2, i, prev, Append(row, cell))

RECURSIVE FillMatrix(_, _, _, _)
FillMatrix(str1, str2, i, prev) ==
  IF i > Len(str2) THEN prev
  ELSE FillMatrix(str1, str2, i + 1, FillRow(str1, str2, i, prev, <<i>>))

\* mutant: the distance is read one column short of the last,
\* matrix[str2.length][str1.length - 1]
EditDistanceShortColumn(str1, str2) ==
  FillMatrix(str1, str2, 1, [j \in 1..(Len(str1) + 1) |-> j - 1])[Len(str1)]

\* matrix[str2.length][str1.length]
EditDistance(str1, str2) ==
  FillMatrix(str1, str2, 1, [j \in 1..(Len(str1) + 1) |-> j - 1])[Len(str1) + 1]

\* mutant: the emptiness test comes before the equality test
CalculateStringSimilarityEmptyFirst(str1, str2) ==
  IF Len(str1) = 0 \/ Len(str2) = 0 THEN 0
  ELSE IF str1 = str2 THEN Unit
  ELSE LET maxLength == Max2(Len(str1), Len(str2))
           distance  == EditDistance(str1, str2)
       IN Unit - (Unit \div maxLength) * distance

\* mutant: the distance is normalised by the length of the first string
CalculateStringSimilarityByFirstLength(str1, str2) ==
  IF str1 = str2 THEN Unit
  ELSE IF Len(str1) = 0 \/ Len(str2) = 0 THEN 0
  ELSE LET distance == EditDistance(str1, str2)
       IN Unit - (Unit \div Len(str1)) * distance

CalculateStringSimilarity(str1, str2) ==
  IF str1 = str2 THEN Unit
  ELSE IF Len(str1) = 0 \/ Len(str2) = 0 THEN 0
  ELSE LET maxLength == Max2(Len(str1), Len(str2))
           distance  == EditDistance(str1, str2)
       IN Unit - (Unit \div maxLength) * distance

(***************************************************************************)
(* Search candidates (apiPlace).  displayName is absent, a plain string or *)
(* an object {text}; formattedAddress <<>> stands for absent or empty;     *)
(* rating is in tenths and 0 when absent; userRatingCount is 0 when        *)
(* absent; id "" when absent.                                              *)
(***************************************************************************)
\* apiPlace.displayName?.text || apiPlace.displayName || '' is a string
\* unless displayName is an object without a non-empty text: then the
\* object itself is the value and .toLowerCase() raises a TypeError.
DisplayNameIsString(apiPlace) ==
  \/ apiPlace.displayName.kind \in {"missing", "string"}
  \/ apiPlace.displayName.kind = "object" /\ Len(apiPlace.displayName.text) > 0

DisplayNameText(apiPlace) ==
  IF apiPlace.displayName.kind = "missing" THEN <<>> ELSE apiPlace.displayName.text

\* mutant: the candidate name is compared without case folding
ApiNameNoFold(apiPlace) == DisplayNameText(apiPlace)

ApiName(apiPlace) == ToLowerCase(DisplayNameText(apiPlace))

\* number of mention words matched by some candidate word
RECURSIVE WordMatches(_, _, _)
WordMatches(nameWords, apiWords, k) ==
  IF k > Len(nameWords) THEN 0
  ELSE LET word == nameWords[k]
           hit  == \E a \in 1..Len(apiWords) :
                      \/ Includes(word, apiWords[a])
                      \/ Includes(apiWords[a], word)
                      \/ CalculateStringSimilarity(word, apiWords[a]) > Weight(800)
       IN (IF hit THEN 1 ELSE 0) + WordMatches(nameWords, apiWords, k + 1)

\* the bonus for common name patterns
WordBonus(originalName, apiName) ==
  LET nameWords == LongWords(originalName)
      apiWords  == LongWords(apiName)
  IN IF Len(nameWords) > 0
     THEN (Weight(150) \div Len(nameWords)) * WordMatches(nameWords, apiWords, 1)
     ELSE 0

\* the name part of the confidence
NameConfidence(originalName, apiName) ==
  IF originalName = apiName
  THEN Weight(600)
  ELSE (IF Includes(originalName, apiName) \/ Includes(apiName, originalName)
        THEN Weight(500)
        ELSE (CalculateStringSimilarity(originalName, apiName) \div 1000) * 600)
       + WordBonus(originalName, apiName)

S_portugal == <<"p","o","r","t","u","g","a","l">>
S_lisboa   == <<"l","i","s","b","o","a">>
S_lisbon   == <<"l","i","s","b","o","n">>

\* mutant: no partial credit for a country or region match
AddressConfidenceCityOnly(apiPlace, city) ==
  IF Includes(ToLowerCase(apiPlace.formattedAddress), ToLowerCase(city))
  THEN Weight(300)
  ELSE 0

\* address / city part of the confidence
AddressConfidence(apiPlace, city) ==
  LET apiAddress == ToLowerCase(apiPlace.formattedAddress) IN
  IF Includes(apiAddress, ToLowerCase(city))
  THEN Weight(300)
  ELSE IF \/ Includes(apiAddress, S_portugal)
          \/ Includes(apiAddress, S_lisboa)
          \/ Includes(apiAddress, S_lisbon)
       THEN Weight(150)
       ELSE 0

StatusConfidence(apiPlace) ==
  IF apiPlace.businessStatus = "OPERATIONAL" THEN Weight(50)
  ELSE IF apiPlace.businessStatus = "CLOSED_TEMPORARILY" THEN Weight(25)
  ELSE 0

QualityConfidence(apiPlace) ==
    (IF apiPlace.rating # 0 /\ apiPlace.rating >= 40 THEN Weight(30) ELSE 0)
  + (IF apiPlace.userRatingCount # 0 /\ apiPlace.userRatingCount >= 1000
     THEN Weight(20) ELSE 0)

\* mutant: the final score is returned without the cap
CapMissing(confidence) == confidence

\* Math.min(confidence, 1)
Cap(confidence) == Min2(confidence, Unit)

\* the sum of the contributions, before the cap
RawConfidence(originalPlace, apiPlace, city) ==
    NameConfidence(ToLowerCase(originalPlace.name), ApiName(apiPlace))
  + AddressConfidence(apiPlace, city)
  + StatusConfidence(apiPlace)
  + QualityConfidence(apiPlace)

\* calculateMatchConfidence: threw is TRUE when the call raises a TypeError
\* instead of returning a score.
CalculateMatchConfidence(originalPlace, apiPlace, city) ==
  IF ~DisplayNameIsString(apiPlace)
  THEN [threw |-> TRUE, value |-> 0]
  ELSE [threw |-> FALSE, value |-> Cap(RawConfidence(originalPlace, apiPlace, city))]

(***************************************************************************)
(* JavaScript values.  undefined and null are tagged records so that they  *)
(* can be compared with place records and arrays.                          *)
(***************************************************************************)
Undefined == [tag |-> "undefined"]
Null      == [tag |-> "null"]
Array(items) == [tag |-> "array", items |-> items]

IsArray(v)   == v.tag = "array"
\* JavaScript truthiness of a value that is undefined, null, an object or an array
Truthy(v)    == v.tag \notin {"undefined", "null"}

\* the error strings of the source, as tokens; NoError is error: null
NoError            == "null"
ErrApi             == "API Error: <status> - <errorText>"
ErrNoMatch         == "No matching places found"
ErrNetwork         == "fetch failed"
ErrTypeError       == "TypeError"
ErrInvalidFormat   == "Invalid route response format"
ErrNothingVerified == "No places could be verified. Please try a different search or be more specific."

(***************************************************************************)
(* findBestMatch.                                                          *)
(***************************************************************************)
\* the place object built from a search candidate
BestPlace(apiPlace) ==
  [tag             |-> "place",
   id              |-> apiPlace.id,
   name            |-> DisplayNameText(apiPlace),
   address         |-> apiPlace.formattedAddress,
   rating          |-> apiPlace.rating,
   userRatingCount |-> apiPlace.userRatingCount,
   businessStatus  |-> apiPlace.businessStatus,
   place_id        |-> apiPlace.id]

\* mutant: a candidate replaces the best match when its score is at least
\* the best score so far
ScoreBeatsOrTies(confidence, best) == confidence >= best

\* the comparison that lets a candidate replace the best match so far
ScoreBeats(confidence, best) == confidence > best

RECURSIVE BestMatchFrom(_, _, _, _, _)
BestMatchFrom(originalPlace, apiResults, city, k, bestMatch) ==
  IF k > Len(apiResults) THEN bestMatch
  ELSE LET c == CalculateMatchConfidence(originalPlace, apiResults[k], city) IN
       IF c.threw
       THEN [threw |-> TRUE, place |-> Null, confidence |-> 0]
       ELSE BestMatchFrom(originalPlace, apiResults, city, k + 1,
              IF ScoreBeats(c.value, bestMatch.confidence)
              THEN [threw |-> FALSE, place |-> BestPlace(apiResults[k]),
                    confidence |-> c.value]
              ELSE bestMatch)

FindBestMatch(originalPlace, apiResults, city) ==
  BestMatchFrom(originalPlace, apiResults, city, 1,
                [threw |-> FALSE, place |-> Null, confidence |-> 0])

(***************************************************************************)
(* verifyPlace.  A search response is                                      *)
(*   [kind |-> "network_error"]  fetch rejected,                           *)
(*   [kind |-> "not_ok"]         response.ok is false,                     *)
(*   [kind |-> "ok"]             with data.places Undefined or an array.   *)
(* The result is how the promise returned by verifyPlace settles.          *)
(***************************************************************************)
\* `${place.name} ${city}`
SearchQuery(place, city) == place.name \o <<" ">> \o city

\* the object returned on a failure path
FailureOutcome(place, error) ==
  [verified |-> FALSE, confidence |-> 0, error |-> error,
   originalPlace |-> place,
   verifiedPlace |-> Undefined, alternativeMatches |-> Undefined]

\* mutant: the alternatives leave out the first candidate (slice(1, 4))
ThreeAfterFirst(items) == SubSeq(items, 2, Min2(4, Len(items)))

\* data.places.slice(0, 3)
FirstThree(items) == SubSeq(items, 1, Min2(3, Len(items)))

\* mutant: the acceptance test admits a confidence of exactly 0.3
IsVerifiedInclusive(confidence) == confidence >= Weight(300)

\* bestMatch.confidence > 0.3
IsVerified(confidence) == confidence > Weight(300)

Fulfilled(v) == [state |-> "fulfilled", value |-> v]
Rejected(e)  == [state |-> "rejected", value |-> e]
Pending      == [state |-> "pending", value |-> Undefined]

\* mutant: a network error is rethrown instead of being turned into an outcome
VerifyPlaceRethrow(place, city, resp) ==
  IF resp.kind = "network_error" THEN Rejected(ErrNetwork)
  ELSE IF resp.kind = "not_ok" THEN Fulfilled(FailureOutcome(place, ErrApi))
  ELSE IF ~Truthy(resp.places) \/ Len(resp.places.items) = 0
  THEN Fulfilled(FailureOutcome(place, ErrNoMatch))
  ELSE LET bestMatch == FindBestMatch(place, resp.places.items, city) IN
       IF bestMatch.threw
       THEN Fulfilled(FailureOutcome(place, ErrTypeError))
       ELSE Fulfilled([verified |-> IsVerified(bestMatch.confidence),
                       confidence |-> bestMatch.confidence,
                       error |-> NoError,
                       originalPlace |-> place,
                       verifiedPlace |-> bestMatch.place,
                       alternativeMatches |-> Array(FirstThree(resp.places.items))])

VerifyPlace(place, city, resp) ==
  IF resp.kind = "network_error" THEN Fulfilled(FailureOutcome(place, ErrNetwork))
  ELSE IF resp.kind = "not_ok" THEN Fulfilled(FailureOutcome(place, ErrApi))
  ELSE IF ~Truthy(resp.places) \/ Len(resp.places.items) = 0
  THEN Fulfilled(FailureOutcome(place, ErrNoMatch))
  ELSE LET bestMatch == FindBestMatch(place, resp.places.items, city) IN
       IF bestMatch.threw
       THEN Fulfilled(FailureOutcome(place, ErrTypeError))
       ELSE Fulfilled([verified |-> IsVerified(bestMatch.confidence),
                       confidence |-> bestMatch.confidence,
                       error |-> NoError,
                       originalPlace |-> place,
                       verifiedPlace |-> bestMatch.place,
                       alternativeMatches |-> Array(FirstThree(resp.places.items))])

(***************************************************************************)
(* verifyAllPlaces.                                                        *)
(***************************************************************************)
\* routeResponse.places is missing or not an array
InvalidRouteResponse(routeResponse) ==
  ~Truthy(routeResponse.places) \/ ~IsArray(routeResponse.places)

\* mutant: the rate is left as a fraction of 1 instead of a percentage
VerificationRateFraction(verifiedCount, totalCount) ==
  IF totalCount = 0
  THEN [nan |-> TRUE, num |-> 0, den |-> 0]
  ELSE [nan |-> FALSE, num |-> verifiedCount, den |-> totalCount]

\* (verifiedCount / totalCount) * 100 as the fraction num/den; 0/0 is NaN
VerificationRate(verifiedCount, totalCount) ==
  IF totalCount = 0
  THEN [nan |-> TRUE, num |-> 0, den |-> 0]
  ELSE [nan |-> FALSE, num |-> verifiedCount * 100, den |-> totalCount]

\* verificationResults.filter((result) => result.verified).length
CountVerified(verificationResults) ==
  Cardinality({i \in 1..Len(verificationResults) : verificationResults[i].verified})

Summary(verificationResults) ==
  LET verifiedCount == CountVerified(verificationResults)
      totalCount    == Len(verificationResults)
  IN [totalPlaces      |-> totalCount,
      verifiedPlaces   |-> verifiedCount,
      verificationRate |-> VerificationRate(verifiedCount, totalCount),
      unverifiedPlaces |-> totalCount - verifiedCount]

S_AddressNotFound ==
  <<"A","d","d","r","e","s","s"," ","n","o","t"," ","f","o","u","n","d">>

\* one element of enhancedPlaces.  place_id "" stands for null; rating and
\* userRatingCount 0 stand for null; businessStatus "" stands for null.
EnhancedPlace(result) ==
  LET vp    == result.verifiedPlace
      found == vp.tag = "place"
  IN [name            |-> result.originalPlace.name,
      type            |-> result.originalPlace.type,
      address         |-> IF found /\ Len(vp.address) > 0
                          THEN vp.address ELSE S_AddressNotFound,
      place_id        |-> IF found THEN vp.place_id ELSE "",
      rating          |-> IF found THEN vp.rating ELSE 0,
      userRatingCount |-> IF found THEN vp.userRatingCount ELSE 0,
      businessStatus  |-> IF found THEN vp.businessStatus ELSE "",
      verification    |-> [verified     |-> result.verified,
                           confidence   |-> result.confidence,
                           error        |-> result.error,
                           verifiedData |-> vp,
                           alternatives |-> result.alternativeMatches]]

\* mutant: the join settles as soon as one promise is fulfilled, with the
\* values available so far
PromiseAny(promises) ==
  IF \E i \in 1..Len(promises) : promises[i].state = "rejected"
  THEN Rejected((promises[CHOOSE i \in 1..Len(promises) :
                            promises[i].state = "rejected"]).value)
  ELSE IF \E i \in 1..Len(promises) : promises[i].state = "fulfilled"
  THEN Fulfilled(SelectSeq([i \in 1..Len(promises) |-> promises[i]],
                           LAMBDA q : q.state = "fulfilled"))
  ELSE Pending

\* Promise.all: rejected as soon as one promise is rejected, fulfilled with
\* the values in input order once every promise is fulfilled
PromiseAll(promises) ==
  IF \E i \in 1..Len(promises) : promises[i].state = "rejected"
  THEN Rejected((promises[CHOOSE i \in 1..Len(promises) :
                            promises[i].state = "rejected"]).value)
  ELSE IF \A i \in 1..Len(promises) : promises[i].state = "fulfilled"
  THEN Fulfilled(promises)
  ELSE Pending

\* mutant: a batch without a verified mention is reported as a failure
BatchReturnFailsUnverified(joined) ==
  IF joined.state = "rejected"
  THEN [success |-> FALSE, error |-> joined.value]
  ELSE LET verificationResults ==
             [i \in 1..Len(joined.value) |-> joined.value[i].value]
       IN IF CountVerified(verificationResults) = 0
          THEN [success |-> FALSE, error |-> ErrNoMatch]
          ELSE [success             |-> TRUE,
                verificationResults |-> verificationResults,
                summary             |-> Summary(verificationResults),
                enhancedPlaces      |-> [i \in 1..Len(verificationResults) |->
                                           EnhancedPlace(verificationResults[i])]]

\* what verifyAllPlaces returns once Promise.all has settled
BatchReturn(joined) ==
  IF joined.state = "rejected"
  THEN [success |-> FALSE, error |-> joined.value]
  ELSE LET verificationResults ==
             [i \in 1..Len(joined.value) |-> joined.value[i].value]
       IN [success             |-> TRUE,
           verificationResults |-> verificationResults,
           summary             |-> Summary(verificationResults),
           enhancedPlaces      |-> [i \in 1..Len(verificationResults) |->
                                      EnhancedPlace(verificationResults[i])]]

NoResult == [tag |-> "none"]

(***************************************************************************)
(* optimizeRouteOrder.  A routing response is                              *)
(*   [kind |-> "network_error"], [kind |-> "not_ok"],                      *)
(*   [kind |-> "no_routes"]  data.routes missing or empty,                 *)
(*   [kind |-> "no_index"]   routes[0] without optimizedIntermediateWaypointIndex, *)
(*   [kind |-> "ok", index |-> permutation (0-based), duration |-> the      *)
(*    string "<n>s" or <<>> when absent, distanceMeters |-> metres or      *)
(*    NullNum when absent].                                                *)
(* In the result NullNum stands for null in totalDuration, totalDistance   *)
(* and minutes (the number in estimatedWalkingTime).                       *)
(***************************************************************************)
MsgInsufficientIds == "Insufficient place IDs for optimization"
MsgOnlyTwo         == "Only 2 places, no optimization needed"
MsgFailed          == "Optimization failed, using original order"
MsgNotPerformed    == "No optimization performed by API"
NoMessage          == "undefined"

\* places.filter((place) => place.place_id)
PlacesWithIds(places) == SelectSeq(places, LAMBDA place : place.place_id # "")

\* placesWithIds.slice(1, -1)
Intermediates(placesWithIds) == SubSeq(placesWithIds, 2, Len(placesWithIds) - 1)

\* mutant: the fallback result carries no message
NotOptimizedSilent(places, message) ==
  [success |-> TRUE, optimized |-> FALSE, places |-> places, message |-> NoMessage,
   optimization |-> Null]

NotOptimized(places, message) ==
  [success |-> TRUE, optimized |-> FALSE, places |-> places, message |-> message,
   optimization |-> Null]

\* the part of optimizeRouteOrder before the routing call: a result when it
\* returns without calling the routing service, NoResult when it calls it
OptimizeBeforeFetch(places) ==
  IF Len(places) < 2
  THEN NotOptimized(places, MsgFailed)
  ELSE LET placesWithIds == PlacesWithIds(places) IN
       IF Len(placesWithIds) < 2 THEN NotOptimized(places, MsgInsufficientIds)
       ELSE IF Len(placesWithIds) = 2 THEN NotOptimized(placesWithIds, MsgOnlyTwo)
       ELSE NoResult

\* a number field that is null: totalDuration, totalDistance, and the
\* minutes of estimatedWalkingTime; an absent distanceMeters of a response
NullNum == -1

\* the NaN parseInt returns when the string does not start with a digit
NaN == -2

Digits == <<"0", "1", "2", "3", "4", "5", "6", "7", "8", "9">>

IsDigit(c) == \E d \in 1..10 : Digits[d] = c

DigitValue(c) == (CHOOSE d \in 1..10 : Digits[d] = c) - 1

\* route.duration.replace('s', ''): the first "s" is removed
ReplaceS(str) ==
  IF \E i \in 1..Len(str) : str[i] = "s"
  THEN LET i == CHOOSE i \in 1..Len(str) :
                  str[i] = "s" /\ \A j \in 1..(i - 1) : str[j] # "s"
       IN SubSeq(str, 1, i - 1) \o SubSeq(str, i + 1, Len(str))
  ELSE str

RECURSIVE ParseDigits(_, _, _)
ParseDigits(str, i, acc) ==
  IF i > Len(str) \/ ~IsDigit(str[i]) THEN acc
  ELSE ParseDigits(str, i + 1, 10 * acc + DigitValue(str[i]))

\* parseInt(str) for a string without sign or leading blanks: the value of
\* its leading decimal digits, NaN when there is none
ParseInt(str) ==
  IF Len(str) = 0 \/ ~IsDigit(str[1]) THEN NaN ELSE ParseDigits(str, 1, 0)

\* Math.round(totalDuration / 60)
RoundMinutes(totalDuration) == (totalDuration + 30) \div 60

RECURSIVE NumberToString(_)
\* the decimal digits of a non-negative integer
NumberToString(n) ==
  IF n < 10 THEN <<Digits[n + 1]>>
  ELSE NumberToString(n \div 10) \o <<Digits[(n % 10) + 1]>>

\* mutant: each intermediate is moved to the position its index names,
\* reordered[index] = intermediates[k]
ReorderedInverse(intermediates, optimizedOrder) ==
  [k \in 1..Len(optimizedOrder) |->
     intermediates[CHOOSE i \in 1..Len(optimizedOrder) : optimizedOrder[i] = k - 1]]

\* optimizedOrder.map((index) => intermediates[index])
ReorderedIntermediates(intermediates, optimizedOrder) ==
  [k \in 1..Len(optimizedOrder) |-> intermediates[optimizedOrder[k] + 1]]

\* totalDuration ? ... : null, totalDistance || null: 0, NaN and null are falsy
FalsyNum(n) == n \in {NullNum, NaN, 0}

\* the part of optimizeRouteOrder after the routing call
OptimizeAfterFetch(places, resp) ==
  LET placesWithIds == PlacesWithIds(places)
      origin        == placesWithIds[1]
      destination   == placesWithIds[Len(placesWithIds)]
      intermediates == Intermediates(placesWithIds)
  IN IF resp.kind = "network_error" THEN NotOptimized(places, MsgFailed)
     ELSE IF resp.kind \in {"not_ok", "no_routes"}
     THEN NotOptimized(placesWithIds, MsgFailed)
     ELSE IF resp.kind = "no_index" THEN NotOptimized(placesWithIds, MsgNotPerformed)
     ELSE LET totalDuration == IF Len(resp.duration) = 0 THEN NullNum
                               ELSE ParseInt(ReplaceS(resp.duration))
              totalDistance == IF FalsyNum(resp.distanceMeters) THEN NullNum
                               ELSE resp.distanceMeters
          IN
          [success   |-> TRUE,
           optimized |-> TRUE,
           places    |-> <<origin>>
                         \o ReorderedIntermediates(intermediates, resp.index)
                         \o <<destination>>,
           message   |-> NoMessage,
           optimization |->
             [tag            |-> "optimization",
              optimizedOrder |-> resp.index,
              totalDuration  |-> totalDuration,
              totalDistance  |-> totalDistance,
              minutes        |-> IF FalsyNum(totalDuration) THEN NullNum
                                 ELSE RoundMinutes(totalDuration)],
           routeData |-> [duration       |-> resp.duration,
                          distanceMeters |-> resp.distanceMeters]]

(***************************************************************************)
(* generateGoogleMapsUrl and generateOptimizedMapsUrl: the two link        *)
(* builders differ only in the utm_campaign they append.  A stop has an    *)
(* address (<<>> when absent or empty), a location with integer            *)
(* coordinates or none, and a place_id (<<>> when null).                   *)
(***************************************************************************)
\* the length above which the simpler link is returned
UrlLimit == 2048

\* 'https://www.google.com/maps/dir/?api=1'
UrlBase ==
  <<"h", "t", "t", "p", "s", ":", "/", "/", "w", "w", "w", ".", "g", "o",
    "o", "g", "l", "e", ".", "c", "o", "m", "/", "m", "a", "p", "s", "/",
    "d", "i", "r", "/", "?", "a", "p", "i", "=", "1">>

P_travelmode ==
  <<"&", "t", "r", "a", "v", "e", "l", "m", "o", "d", "e", "=">>

P_origin ==
  <<"&", "o", "r", "i", "g", "i", "n", "=">>

P_destination ==
  <<"&", "d", "e", "s", "t", "i", "n", "a", "t", "i", "o", "n", "=">>

P_waypoints ==
  <<"&", "w", "a", "y", "p", "o", "i", "n", "t", "s", "=">>

P_origin_place_id ==
  <<"&", "o", "r", "i", "g", "i", "n", "_", "p", "l", "a", "c", "e", "_",
    "i", "d", "=">>

P_destination_place_id ==
  <<"&", "d", "e", "s", "t", "i", "n", "a", "t", "i", "o", "n", "_", "p",
    "l", "a", "c", "e", "_", "i", "d", "=">>

P_waypoint_place_ids ==
  <<"&", "w", "a", "y", "p", "o", "i", "n", "t", "_", "p", "l", "a", "c",
    "e", "_", "i", "d", "s", "=">>

S_walking ==
  <<"w", "a", "l", "k", "i", "n", "g">>

S_driving ==
  <<"d", "r", "i", "v", "i", "n", "g">>

S_transit ==
  <<"t", "r", "a", "n", "s", "i", "t">>

S_bicycling ==
  <<"b", "i", "c", "y", "c", "l", "i", "n", "g">>

\* the tracking parameters of generateGoogleMapsUrl
UtmStandard ==
  <<"&", "u", "t", "m", "_", "s", "o", "u", "r", "c", "e", "=", "a", "i",
    "_", "t", "r", "a", "v", "e", "l", "_", "p", "l", "a", "n", "n", "e",
    "r", "&", "u", "t", "m", "_", "c", "a", "m", "p", "a", "i", "g", "n",
    "=", "w", "a", "l", "k", "i", "n", "g", "_", "r", "o", "u", "t", "e",
    "_", "g", "e", "n", "e", "r", "a", "t", "i", "o", "n">>

\* the tracking parameters of generateOptimizedMapsUrl
UtmOptimized ==
  <<"&", "u", "t", "m", "_", "s", "o", "u", "r", "c", "e", "=", "a", "i",
    "_", "t", "r", "a", "v", "e", "l", "_", "p", "l", "a", "n", "n", "e",
    "r", "&", "u", "t", "m", "_", "c", "a", "m", "p", "a", "i", "g", "n",
    "=", "o", "p", "t", "i", "m", "i", "z", "e", "d", "_", "w", "a", "l",
    "k", "i", "n", "g", "_", "r", "o", "u", "t", "e">>

S_Comma == <<"%", "2", "C">>
S_Pipe  == <<"%", "7", "C">>

\* modeMap[travelMode] || 'walking'
GoogleTravelMode(travelMode) ==
  CASE travelMode \in {"WALK", "walking"}      -> S_walking
    [] travelMode \in {"DRIVE", "driving"}     -> S_driving
    [] travelMode \in {"TRANSIT", "transit"}   -> S_transit
    [] travelMode \in {"BICYCLE", "bicycling"} -> S_bicycling
    [] OTHER                                   -> S_walking

\* encodeURIComponent followed by the four replacements, on one character:
\* letters and digits are kept, the blank and the comma are escaped by
\* encodeURIComponent, and ' ( ) * by the replacements
EncodeChar(c) ==
  CASE c = " " -> <<"%", "2", "0">>
    [] c = "," -> <<"%", "2", "C">>
    [] c = "'" -> <<"%", "2", "7">>
    [] c = "(" -> <<"%", "2", "8">>
    [] c = ")" -> <<"%", "2", "9">>
    [] c = "*" -> <<"%", "2", "A">>
    [] OTHER   -> <<c>>

RECURSIVE UrlEncodeRange(_, _, _)
\* the encoding of str[lo..hi], by halves
UrlEncodeRange(str, lo, hi) ==
  IF lo > hi THEN <<>>
  ELSE IF lo = hi THEN EncodeChar(str[lo])
  ELSE LET mid == (lo + hi) \div 2
       IN UrlEncodeRange(str, lo, mid) \o UrlEncodeRange(str, mid + 1, hi)

\* urlEncode(str)
UrlEncode(str) == UrlEncodeRange(str, 1, Len(str))

\* `${location.lat}%2C${location.lng}`
Coordinates(location) ==
  NumberToString(location.lat) \o S_Comma \o NumberToString(location.lng)

\* the value of a stop in a link: its encoded address, else its
\* coordinates, else nothing
StopValue(place) ==
  IF Len(place.address) > 0 THEN UrlEncode(place.address)
  ELSE IF place.location.present THEN Coordinates(place.location)
  ELSE <<>>

\* if (origin.address) url += `&origin=...` else if (origin.location) ...
Endpoint(param, place) ==
  IF Len(place.address) > 0 \/ place.location.present
  THEN param \o StopValue(place)
  ELSE <<>>

RECURSIVE Join(_, _)
\* strings.join(separator)
Join(strings, separator) ==
  IF Len(strings) = 0 THEN <<>>
  ELSE IF Len(strings) = 1 THEN strings[1]
  ELSE strings[1] \o separator \o Join(Tail(strings), separator)

\* places.slice(1, -1)
Waypoints(places) == SubSeq(places, 2, Len(places) - 1)

\* the waypoints parameter
WaypointsPart(places) ==
  IF Len(places) > 2
  THEN LET waypoints       == Waypoints(places)
           waypointStrings ==
             SelectSeq([k \in 1..Len(waypoints) |-> StopValue(waypoints[k])],
                       LAMBDA wp : wp # <<>>)
       IN IF Len(waypointStrings) > 0
          THEN P_waypoints \o Join(waypointStrings, S_Pipe)
          ELSE <<>>
  ELSE <<>>

\* the place id parameters
PlaceIdsPart(places) ==
  LET first == places[1]
      last  == places[Len(places)]
      waypointPlaceIds ==
        SelectSeq([k \in 1..Len(Waypoints(places)) |-> Waypoints(places)[k].place_id],
                  LAMBDA id : id # <<>>)
  IN IF \E k \in 1..Len(places) : places[k].place_id # <<>>
     THEN (IF first.place_id # <<>> THEN P_origin_place_id \o first.place_id ELSE <<>>)
          \o (IF last.place_id # <<>>
              THEN P_destination_place_id \o last.place_id ELSE <<>>)
          \o (IF Len(places) > 2 /\ Len(waypointPlaceIds) > 0
              THEN P_waypoint_place_ids \o Join(waypointPlaceIds, S_Pipe)
              ELSE <<>>)
     ELSE <<>>

\* the link as assembled before the length test
AssembledUrl(places, travelMode, utm) ==
  UrlBase \o P_travelmode \o GoogleTravelMode(travelMode)
  \o Endpoint(P_origin, places[1])
  \o Endpoint(P_destination, places[Len(places)])
  \o WaypointsPart(places)
  \o PlaceIdsPart(places)
  \o utm

\* the simpler link: travel mode, origin and destination
SimpleUrl(places, travelMode, utm) ==
  UrlBase \o P_travelmode \o GoogleTravelMode(travelMode)
  \o Endpoint(P_origin, places[1])
  \o Endpoint(P_destination, places[Len(places)])
  \o utm

\* mutant: the simpler link is returned from the limit on
ExceedsLimitInclusive(url) == Len(url) >= UrlLimit

\* url.length > 2048
ExceedsLimit(url) == Len(url) > UrlLimit

\* the body shared by the two builders: Null for an empty stop list, else
\* the link as assembled and the link returned
GenerateMapsUrl(places, travelMode, utm) ==
  IF Len(places) = 0 THEN Null
  ELSE LET url == AssembledUrl(places, travelMode, utm) IN
       IF ExceedsLimit(url)
       THEN [tag |-> "link", assembled |-> url,
             returned |-> SimpleUrl(places, travelMode, utm)]
       ELSE [tag |-> "link", assembled |-> url, returned |-> url]

GenerateGoogleMapsUrl(places, travelMode) ==
  GenerateMapsUrl(places, travelMode, UtmStandard)

GenerateOptimizedMapsUrl(places, travelMode) ==
  GenerateMapsUrl(places, travelMode, UtmOptimized)

(***************************************************************************)
(* generatePlaces, from the parsed model response on.                      *)
(***************************************************************************)
\* the validation of the parsed response: city, places array, and a name
\* and a type for every place
ValidJson(jsonResponse) ==
  /\ Len(jsonResponse.city) > 0
  /\ ~InvalidRouteResponse(jsonResponse)
  /\ \A i \in 1..Len(jsonResponse.places.items) :
        /\ Len(jsonResponse.places.items[i].name) > 0
        /\ jsonResponse.places.items[i].type # ""

\* mutant: every enhanced place is kept, verified or not
VerifiedPlacesUnfiltered(enhancedPlaces) == enhancedPlaces

\* verificationResult.enhancedPlaces.filter(place => place.verification.verified)
VerifiedPlaces(enhancedPlaces) ==
  SelectSeq(enhancedPlaces, LAMBDA place : place.verification.verified)

Failure(error) == [success |-> FALSE, error |-> error]

\* the result of generatePlaces once optimizeRouteOrder has returned
FinalResponse(verificationResult, verifiedPlaces, optimizationResult) ==
  LET useOptimized == optimizationResult.success /\ optimizationResult.optimized IN
  [success |-> TRUE,
   places  |-> IF useOptimized THEN optimizationResult.places ELSE verifiedPlaces,
   verification    |-> verificationResult.summary,
   optimization    |-> IF useOptimized THEN optimizationResult.optimization ELSE Null,
   mapsUrlBuilder  |-> IF useOptimized THEN "generateOptimizedMapsUrl"
                                       ELSE "generateGoogleMapsUrl",
   optimizationResult |-> optimizationResult]

\* mutant: an empty verified list is not rejected
NothingVerifiedNever(verifiedPlaces) == FALSE

\* verifiedPlaces.length === 0
NothingVerified(verifiedPlaces) == Len(verifiedPlaces) = 0

(***************************************************************************)
(* Inputs.                                                                 *)
(***************************************************************************)
S_Rome    == <<"R","o","m","e">>
S_Bar     == <<"B","a","r">>
S_BAR     == <<"B","A","R">>
S_BarUno  == <<"B","a","r"," ","U","n","o">>
S_CafeSol == <<"C","a","f","e"," ","S","o","l">>
S_CafeLuz == <<"C","a","f","e"," ","L","u","z">>
S_SolBar  == <<"S","o","l"," ","(","B","a","r",")">>
S_xyz     == <<"x","y","z">>
S_Bax     == <<"B","a","x">>
S_ViaRome == <<"V","i","a"," ","1",","," ","R","O","M","E">>
S_Oslo    == <<"O","s","l","o">>
S_LisboaPortugal ==
  <<"L","i","s","b","o","a",","," ","P","o","r","t","u","g","a","l">>

Candidate(id, kind, text, address, status, rating, count) ==
  [id |-> id, displayName |-> [kind |-> kind, text |-> text],
   formattedAddress |-> address, businessStatus |-> status,
   rating |-> rating, userRatingCount |-> count]

mBar  == [name |-> S_Bar, type |-> "bar"]
mCafe == [name |-> S_CafeSol, type |-> "cafe"]
\* a mention the model response left without a type
mNoType == [name |-> S_Bar, type |-> ""]

\* matches mBar in Rome: 0.6 + 0.3 + 0.05
cBar   == Candidate("p1", "object", S_Bar, S_ViaRome, "OPERATIONAL", 0, 0)
\* matches mCafe in Rome
cCafe  == Candidate("p2", "object", S_CafeSol, S_ViaRome, "OPERATIONAL", 45, 1200)
\* scores 0 for mBar and mCafe: no common character, foreign address
cZero  == Candidate("p3", "string", S_xyz, S_Oslo, "", 0, 0)
\* a display name object without text
cNoText == Candidate("p4", "object", <<>>, S_ViaRome, "OPERATIONAL", 0, 0)
\* a match without an identifier
cNoId  == Candidate("", "object", S_Bar, S_ViaRome, "OPERATIONAL", 0, 0)

MentionPool == {mBar, mCafe}

SeqsUpTo(S, n) == UNION {[1..k -> S] : k \in 0..n}

RouteResponses ==
  {[places |-> p, city |-> S_Rome] :
     p \in {Undefined, [tag |-> "object"]}
           \cup {Array(l) : l \in SeqsUpTo(MentionPool, MaxMentions)}
           \cup {Array(<<mNoType>>)}}

SearchResponses ==
  {[kind |-> "network_error", places |-> Undefined],
   [kind |-> "not_ok", places |-> Undefined],
   [kind |-> "ok", places |-> Undefined]}
  \cup {[kind |-> "ok", places |-> Array(l)] :
          l \in {<<cZero>>, <<cBar>>, <<cNoId>>}}

IndexPermutations(n) ==
  {p \in [1..n -> 0..(n - 1)] : \A i, j \in 1..n : p[i] = p[j] => i = j}

\* the duration format of the routing service, "<n>s"
DurationString(n) == NumberToString(n) \o <<"s">>

\* the seconds a route may take: 0, both sides of the half minute, and the
\* 30.5 minutes of "1830s"
RouteSeconds == {0, 29, 30, 89, 90, 1830}

RouteDurations == {<<>>} \cup {DurationString(n) : n \in RouteSeconds}

RouteDistances == {NullNum, 0, 2400}

RoutingResponses(n) ==
  {[kind |-> k, index |-> <<>>, duration |-> <<>>, distanceMeters |-> NullNum] :
     k \in {"network_error", "not_ok", "no_routes", "no_index"}}
  \cup {[kind |-> "ok", index |-> p, duration |-> d, distanceMeters |-> m] :
          p \in IndexPermutations(n), d \in RouteDurations, m \in RouteDistances}

LlmKinds == {"api_error", "truncated", "bad_json", "json"}

\* verifyPlace tabulated over the inputs of the model
VerifyPlaceTable ==
  [place \in MentionPool \cup {mNoType}, resp \in SearchResponses |->
     VerifyPlace(place, S_Rome, resp)]

(***************************************************************************)
(* State.                                                                  *)
(***************************************************************************)
VARIABLES
  caller,        \* "direct": verifyAllPlaces is called on its own;
                 \* "generatePlaces": it is called by the pipeline
  llm,           \* what the generative model answers
  routeResponse, \* the argument of verifyAllPlaces (the parsed jsonResponse)
  gpc,           \* position of generatePlaces
  vpc,           \* position of verifyAllPlaces
  fetches,       \* the search calls issued, one record per call
  promises,      \* the promises returned by verifyPlace, in input order
  batchResult,   \* what verifyAllPlaces returned
  routeFetch,    \* the routing call of optimizeRouteOrder
  sequencerCalls,\* the arguments optimizeRouteOrder was called with
  genResult,     \* what generatePlaces returned
  scoreIn,       \* arguments of a call of calculateMatchConfidence
  scoreOut,      \* its result
  verifyIn,      \* a mention, a city and the search response of a call of verifyPlace
  verifyOut,     \* the outcome it resolves to
  simIn,         \* the two arguments of a call of calculateStringSimilarity
  simOut,        \* its result
  optIn,         \* the stop list of a call of optimizeRouteOrder
  optFetch,      \* the routing call of that call
  optOut,        \* what that call returned
  linkIn,        \* the builder, stop list and travel mode of a call of a link builder
  linkOut        \* the link it assembled and the link it returned

vars == <<caller, llm, routeResponse, gpc, vpc, fetches, promises, batchResult,
          routeFetch, sequencerCalls, genResult, scoreIn, scoreOut,
          verifyIn, verifyOut, simIn, simOut, optIn, optFetch, optOut,
          linkIn, linkOut>>

batchVars == <<vpc, fetches, promises, batchResult>>
genVars   == <<gpc, routeFetch, sequencerCalls, genResult>>
simVars   == <<simIn, simOut>>
optVars   == <<optIn, optFetch, optOut>>
linkVars  == <<linkIn, linkOut>>
scoreVars == <<scoreIn, scoreOut, verifyIn, verifyOut, simVars, optVars, linkVars>>

NoScore == [tag |-> "none"]
NoFetch == [state |-> "none", resp |-> NoResult]

ErrModel        == "model API error"
ErrTruncated    == "AI response was truncated. Please try a shorter or more specific request."
ErrInvalidJson  == "Invalid JSON response from AI: <message>"
ErrVerification == "Failed to verify places with Google Places API: <error>"

Init ==
  /\ caller \in {"direct", "generatePlaces"}
  /\ llm \in (IF caller = "direct" THEN {"none"} ELSE LlmKinds)
  /\ routeResponse \in (IF llm \in {"none", "json"}
                        THEN RouteResponses
                        ELSE {[places |-> Undefined, city |-> S_Rome]})
  /\ gpc = (IF caller = "direct" THEN "none" ELSE "awaitModel")
  /\ vpc = "idle"
  /\ fetches = <<>>
  /\ promises = <<>>
  /\ batchResult = NoResult
  /\ routeFetch = NoFetch
  /\ sequencerCalls = <<>>
  /\ genResult = NoResult
  /\ scoreIn = NoScore
  /\ scoreOut = NoScore
  /\ verifyIn = NoScore
  /\ verifyOut = NoScore
  /\ simIn = NoScore
  /\ simOut = NoScore
  /\ optIn = NoScore
  /\ optFetch = NoFetch
  /\ optOut = NoResult
  /\ linkIn = NoScore
  /\ linkOut = NoScore

(***************************************************************************)
(* verifyAllPlaces: the call.  Every verifyPlace runs up to its fetch, so  *)
(* all searches are in flight when verifyAllPlaces awaits Promise.all.     *)
(***************************************************************************)
JoinAndReturn(newPromises) ==
  LET joined == PromiseAll(newPromises) IN
  IF joined.state = "pending"
  THEN /\ vpc' = "awaiting"
       /\ batchResult' = NoResult
  ELSE /\ vpc' = "returned"
       /\ batchResult' = BatchReturn(joined)

\* mutant: only the first verifyPlace reaches its fetch before the await
SearchFetchesFirstOnly(places, city) ==
  [i \in 1..Min2(1, Len(places)) |->
     [query |-> SearchQuery(places[i], city),
      state |-> "inflight",
      resp  |-> NoResult]]

\* routeResponse.places.map((place) => verifyPlace(place, city)): each call
\* runs synchronously up to its fetch, so one search per place is in flight
\* when map returns
SearchFetches(places, city) ==
  [i \in 1..Len(places) |->
     [query |-> SearchQuery(places[i], city),
      state |-> "inflight",
      resp  |-> NoResult]]

StartVerifyAllPlaces ==
  IF InvalidRouteResponse(routeResponse)
  THEN /\ vpc' = "returned"
       /\ batchResult' = Failure(ErrInvalidFormat)
       /\ UNCHANGED <<fetches, promises>>
  ELSE LET places == routeResponse.places.items IN
       /\ fetches' = SearchFetches(places, routeResponse.city)
       /\ promises' = [i \in 1..Len(places) |-> Pending]
       /\ JoinAndReturn([i \in 1..Len(places) |-> Pending])

\* verifyAllPlaces called on its own
VerifyAllPlacesCall ==
  /\ caller = "direct"
  /\ vpc = "idle"
  /\ StartVerifyAllPlaces
  /\ UNCHANGED <<caller, llm, routeResponse, genVars, scoreVars>>

\* mutant: the calls share one result object, so settling call i also
\* overwrites the outcomes settled before it
SettleShared(ps, i, outcome) ==
  [k \in 1..Len(ps) |->
     IF k = i \/ ps[k].state = "fulfilled" THEN outcome ELSE ps[k]]

\* mutant: the continuation of call i never settles its promise
SettleNever(ps, i, outcome) == ps

\* the promise of call i settles with the value its own verifyPlace returns;
\* the other promises are untouched
Settle(ps, i, outcome) == [ps EXCEPT ![i] = outcome]

\* the search of mention i completes with resp: verifyPlace resumes, its
\* promise settles, and verifyAllPlaces resumes if Promise.all settles
SearchRespond(i, resp) ==
  /\ i \in 1..Len(fetches)
  /\ fetches[i].state = "inflight"
  /\ fetches' = [fetches EXCEPT ![i] = [@ EXCEPT !.state = "done", !.resp = resp]]
  /\ LET newPromises ==
           Settle(promises, i,
                  VerifyPlaceTable[routeResponse.places.items[i], resp])
     IN /\ promises' = newPromises
        /\ IF vpc = "awaiting"
           THEN JoinAndReturn(newPromises)
           ELSE UNCHANGED <<vpc, batchResult>>
  /\ UNCHANGED <<caller, llm, routeResponse, genVars, scoreVars>>

(***************************************************************************)
(* generatePlaces.                                                         *)
(***************************************************************************)
\* the model answers: parse, validate, and call verifyAllPlaces
GenModelRespond ==
  /\ caller = "generatePlaces"
  /\ gpc = "awaitModel"
  /\ IF llm # "json" \/ ~ValidJson(routeResponse)
     THEN /\ genResult' = Failure(CASE llm = "api_error" -> ErrModel
                                    [] llm = "truncated" -> ErrTruncated
                                    [] OTHER -> ErrInvalidJson)
          /\ gpc' = "done"
          /\ UNCHANGED batchVars
     ELSE /\ StartVerifyAllPlaces
          /\ gpc' = "awaitVerify"
          /\ UNCHANGED genResult
  /\ UNCHANGED <<caller, llm, routeResponse, routeFetch, sequencerCalls, scoreVars>>

\* verifyAllPlaces has returned: filter, reject an empty verified list, and
\* call optimizeRouteOrder, which either returns at once or calls the
\* routing service
GenAfterVerify ==
  /\ gpc = "awaitVerify"
  /\ vpc = "returned"
  /\ IF ~batchResult.success
     THEN /\ genResult' = Failure(ErrVerification)
          /\ gpc' = "done"
          /\ UNCHANGED <<routeFetch, sequencerCalls>>
     ELSE LET verifiedPlaces == VerifiedPlaces(batchResult.enhancedPlaces) IN
          IF NothingVerified(verifiedPlaces)
          THEN /\ genResult' = Failure(ErrNothingVerified)
               /\ gpc' = "done"
               /\ UNCHANGED <<routeFetch, sequencerCalls>>
          ELSE LET early == OptimizeBeforeFetch(verifiedPlaces) IN
               /\ sequencerCalls' = Append(sequencerCalls, verifiedPlaces)
               /\ IF early # NoResult
                  THEN /\ genResult' = FinalResponse(batchResult, verifiedPlaces, early)
                       /\ gpc' = "done"
                       /\ UNCHANGED routeFetch
                  ELSE /\ routeFetch' = [state |-> "inflight", resp |-> NoResult]
                       /\ gpc' = "awaitRoute"
                       /\ UNCHANGED genResult
  /\ UNCHANGED <<caller, llm, routeResponse, batchVars, scoreVars>>

\* the routing call completes: optimizeRouteOrder returns and generatePlaces
\* builds its response
RoutesRespond(resp) ==
  /\ gpc = "awaitRoute"
  /\ routeFetch.state = "inflight"
  /\ LET verifiedPlaces == sequencerCalls[Len(sequencerCalls)] IN
     /\ resp \in RoutingResponses(Len(Intermediates(PlacesWithIds(verifiedPlaces))))
     /\ genResult' = FinalResponse(batchResult, verifiedPlaces,
                                   OptimizeAfterFetch(verifiedPlaces, resp))
  /\ routeFetch' = [state |-> "done", resp |-> resp]
  /\ gpc' = "done"
  /\ UNCHANGED <<caller, llm, routeResponse, batchVars, sequencerCalls, scoreVars>>

AnyRoutingResponse == UNION {RoutingResponses(n) : n \in 1..MaxMentions}

Next ==
  \/ VerifyAllPlacesCall
  \/ \E i \in 1..MaxMentions, resp \in SearchResponses : SearchRespond(i, resp)
  \/ GenModelRespond
  \/ GenAfterVerify
  \/ \E resp \in AnyRoutingResponse : RoutesRespond(resp)

Spec == Init /\ [][Next]_vars

\* every issued search eventually completes or fails, and the event loop
\* then runs the continuation of its verifyPlace
SearchesComplete ==
  \A i \in 1..MaxMentions :
     WF_vars(\E resp \in SearchResponses : SearchRespond(i, resp))

\* verifyAllPlaces called on its own, under that assumption
InitLive == Init /\ caller = "direct"

NextLive ==
  \/ VerifyAllPlacesCall
  \/ \E i \in 1..MaxMentions, resp \in SearchResponses : SearchRespond(i, resp)

SpecLive == InitLive /\ [][NextLive]_vars /\ SearchesComplete

(***************************************************************************)
(* calculateMatchConfidence on its own: one call on arguments drawn from   *)
(* ScoreInputs.                                                            *)
(***************************************************************************)
S_Lisbon == <<"L","i","s","b","o","n">>
S_bar    == <<"b","a","r">>

ScoreNames  == {S_Bar, S_CafeSol, S_SolBar}
ScoreCities == {S_Rome, S_Lisbon}

ScoreDisplayNames ==
  {[kind |-> "missing", text |-> <<>>]}
  \cup {[kind |-> k, text |-> t] :
          k \in {"string", "object"},
          t \in {<<>>, S_bar, S_BAR, S_BarUno, S_CafeLuz, S_xyz, S_Bax}}

ScoreCandidates ==
  {[id |-> "p1", displayName |-> dn, formattedAddress |-> a,
    businessStatus |-> st, rating |-> r, userRatingCount |-> c] :
     dn \in ScoreDisplayNames,
     a  \in {<<>>, S_ViaRome, S_LisboaPortugal, S_Oslo},
     st \in {"OPERATIONAL", "CLOSED_TEMPORARILY", "CLOSED_PERMANENTLY", ""},
     r  \in {0, 39, 40},
     c  \in {0, 999, 1000}}

ScoreInputs ==
  {[tag |-> "call", originalPlace |-> [name |-> n, type |-> "place"],
    apiPlace |-> cand, city |-> city] :
     n \in ScoreNames, cand \in ScoreCandidates, city \in ScoreCities}

InitScore ==
  /\ caller = "none"
  /\ llm = "none"
  /\ routeResponse = [places |-> Undefined, city |-> S_Rome]
  /\ gpc = "none"
  /\ vpc = "idle"
  /\ fetches = <<>>
  /\ promises = <<>>
  /\ batchResult = NoResult
  /\ routeFetch = NoFetch
  /\ sequencerCalls = <<>>
  /\ genResult = NoResult
  /\ scoreIn \in ScoreInputs
  /\ scoreOut = NoScore
  /\ verifyIn = NoScore
  /\ verifyOut = NoScore
  /\ simIn = NoScore
  /\ simOut = NoScore
  /\ optIn = NoScore
  /\ optFetch = NoFetch
  /\ optOut = NoResult
  /\ linkIn = NoScore
  /\ linkOut = NoScore

ApplyScore ==
  /\ scoreIn # NoScore
  /\ scoreOut = NoScore
  /\ LET r == CalculateMatchConfidence(scoreIn.originalPlace, scoreIn.apiPlace,
                                       scoreIn.city)
     IN scoreOut' = [tag |-> "result", threw |-> r.threw, value |-> r.value]
  /\ UNCHANGED <<caller, llm, routeResponse, batchVars, genVars, scoreIn,
                 verifyIn, verifyOut, simVars, optVars, linkVars>>

NextScore == ApplyScore

SpecScore == InitScore /\ [][NextScore]_vars

(***************************************************************************)
(* verifyPlace on its own: one mention, one search response.               *)
(***************************************************************************)
\* scores exactly 0.3 for mBar and mCafe in Rome: only the city matches
cEdge == Candidate("p5", "string", S_xyz, S_ViaRome, "", 0, 0)
\* scores 0.05 for mBar and mCafe: only the status counts
cWeak == Candidate("p6", "string", S_xyz, S_Oslo, "OPERATIONAL", 0, 0)

VerifyCandidates == {cBar, cCafe, cZero, cNoText, cNoId, cEdge, cWeak}

VerifyInputs ==
  {[tag |-> "call", place |-> m, city |-> S_Rome, resp |-> r] :
     m \in MentionPool,
     r \in {[kind |-> "network_error", places |-> Undefined],
            [kind |-> "not_ok", places |-> Undefined],
            [kind |-> "ok", places |-> Undefined]}
           \cup {[kind |-> "ok", places |-> Array(l)] :
                   l \in SeqsUpTo(VerifyCandidates, MaxCandidates)}}

S_NationalMuseum ==
  <<"N","a","t","i","o","n","a","l"," ","M","u","s","e","u","m">>
S_MuseuNacional ==
  <<"M","u","s","e","u"," ","N","a","c","i","o","n","a","l">>

mMuseum == [name |-> S_NationalMuseum, type |-> "museum"]

\* "Museu Nacional" as a plain string or as {text}, in Portugal or not,
\* operational or without a status
MuseumCandidates ==
  {Candidate("p7", k, S_MuseuNacional, a, st, 0, 0) :
     k \in {"string", "object"}, a \in {S_LisboaPortugal, S_Oslo},
     st \in {"OPERATIONAL", ""}}

\* candidates whose displayName is missing or the empty string
NamelessCandidates ==
  {Candidate("p8", k, <<>>, a, st, 0, 0) :
     k \in {"missing", "string"},
     a \in {<<>>, S_ViaRome, S_LisboaPortugal, S_Oslo},
     st \in {"OPERATIONAL", ""}}

\* calls with a single candidate: the museum of Lisbon, and nameless
\* candidates
VerifyExamples ==
  {[tag |-> "call", place |-> mMuseum, city |-> S_Lisbon,
    resp |-> [kind |-> "ok", places |-> Array(<<c>>)]] : c \in MuseumCandidates}
  \cup {[tag |-> "call", place |-> m, city |-> city,
         resp |-> [kind |-> "ok", places |-> Array(<<c>>)]] :
          m \in MentionPool, city \in {S_Rome, S_Lisbon}, c \in NamelessCandidates}

InitVerify ==
  /\ caller = "none"
  /\ llm = "none"
  /\ routeResponse = [places |-> Undefined, city |-> S_Rome]
  /\ gpc = "none"
  /\ vpc = "idle"
  /\ fetches = <<>>
  /\ promises = <<>>
  /\ batchResult = NoResult
  /\ routeFetch = NoFetch
  /\ sequencerCalls = <<>>
  /\ genResult = NoResult
  /\ scoreIn = NoScore
  /\ scoreOut = NoScore
  /\ verifyIn \in VerifyInputs \cup VerifyExamples
  /\ verifyOut = NoScore
  /\ simIn = NoScore
  /\ simOut = NoScore
  /\ optIn = NoScore
  /\ optFetch = NoFetch
  /\ optOut = NoResult
  /\ linkIn = NoScore
  /\ linkOut = NoScore

ApplyVerify ==
  /\ verifyIn # NoScore
  /\ verifyOut = NoScore
  /\ verifyOut' = VerifyPlace(verifyIn.place, verifyIn.city, verifyIn.resp)
  /\ UNCHANGED <<caller, llm, routeResponse, batchVars, genVars, scoreIn,
                 scoreOut, verifyIn, simVars, optVars, linkVars>>

NextVerify == ApplyVerify

SpecVerify == InitVerify /\ [][NextVerify]_vars

(***************************************************************************)
(* calculateStringSimilarity on its own: one call on each order of two     *)
(* strings drawn from SimStrings.                                          *)
(***************************************************************************)
SimAlphabet == {"a", "b", "c"}

SimStrings == UNION {[1..n -> SimAlphabet] : n \in 0..MaxStrLen}

SimInputs == {[tag |-> "call", str1 |-> a, str2 |-> b] : a, b \in SimStrings}

InitSim ==
  /\ caller = "none"
  /\ llm = "none"
  /\ routeResponse = [places |-> Undefined, city |-> S_Rome]
  /\ gpc = "none"
  /\ vpc = "idle"
  /\ fetches = <<>>
  /\ promises = <<>>
  /\ batchResult = NoResult
  /\ routeFetch = NoFetch
  /\ sequencerCalls = <<>>
  /\ genResult = NoResult
  /\ scoreIn = NoScore
  /\ scoreOut = NoScore
  /\ verifyIn = NoScore
  /\ verifyOut = NoScore
  /\ simIn \in SimInputs
  /\ simOut = NoScore
  /\ optIn = NoScore
  /\ optFetch = NoFetch
  /\ optOut = NoResult
  /\ linkIn = NoScore
  /\ linkOut = NoScore

\* value is the result on (str1, str2), swapped the result on (str2, str1)
ApplySim ==
  /\ simIn # NoScore
  /\ simOut = NoScore
  /\ simOut' = [tag     |-> "result",
                value   |-> CalculateStringSimilarity(simIn.str1, simIn.str2),
                swapped |-> CalculateStringSimilarity(simIn.str2, simIn.str1)]
  /\ UNCHANGED <<caller, llm, routeResponse, batchVars, genVars, scoreIn,
                 scoreOut, verifyIn, verifyOut, simIn, optVars, linkVars>>

NextSim == ApplySim

SpecSim == InitSim /\ [][NextSim]_vars

(***************************************************************************)
(* optimizeRouteOrder on its own: one call on a stop list drawn from       *)
(* StopLists.  The stops of a list are distinct places; each carries a     *)
(* place_id or lacks one.                                                  *)
(***************************************************************************)
StopNames == <<"A", "B", "C", "D", "E", "F">>

Stop(k, hasId) ==
  [name |-> <<StopNames[k]>>, place_id |-> IF hasId THEN StopNames[k] ELSE ""]

StopLists ==
  {[k \in 1..n |-> Stop(k, k \in ids)] : n \in 0..MaxStops, ids \in SUBSET (1..MaxStops)}

OptimizeInputs == {[tag |-> "call", places |-> l] : l \in StopLists}

InitOptimize ==
  /\ caller = "none"
  /\ llm = "none"
  /\ routeResponse = [places |-> Undefined, city |-> S_Rome]
  /\ gpc = "none"
  /\ vpc = "idle"
  /\ fetches = <<>>
  /\ promises = <<>>
  /\ batchResult = NoResult
  /\ routeFetch = NoFetch
  /\ sequencerCalls = <<>>
  /\ genResult = NoResult
  /\ scoreIn = NoScore
  /\ scoreOut = NoScore
  /\ verifyIn = NoScore
  /\ verifyOut = NoScore
  /\ simIn = NoScore
  /\ simOut = NoScore
  /\ optIn \in OptimizeInputs
  /\ optFetch = NoFetch
  /\ optOut = NoResult
  /\ linkIn = NoScore
  /\ linkOut = NoScore

\* optimizeRouteOrder runs up to its routing call: it returns at once or
\* issues the call
OptimizeCall ==
  /\ optIn # NoScore
  /\ optFetch = NoFetch
  /\ optOut = NoResult
  /\ LET early == OptimizeBeforeFetch(optIn.places) IN
     IF early # NoResult
     THEN /\ optOut' = early
          /\ UNCHANGED optFetch
     ELSE /\ optFetch' = [state |-> "inflight", resp |-> NoResult]
          /\ UNCHANGED optOut
  /\ UNCHANGED <<caller, llm, routeResponse, batchVars, genVars, scoreIn,
                 scoreOut, verifyIn, verifyOut, simVars, optIn, linkVars>>

\* the routing call completes and optimizeRouteOrder returns
OptimizeRoutesRespond(resp) ==
  /\ optFetch.state = "inflight"
  /\ resp \in RoutingResponses(Len(Intermediates(PlacesWithIds(optIn.places))))
  /\ optOut' = OptimizeAfterFetch(optIn.places, resp)
  /\ optFetch' = [state |-> "done", resp |-> resp]
  /\ UNCHANGED <<caller, llm, routeResponse, batchVars, genVars, scoreIn,
                 scoreOut, verifyIn, verifyOut, simVars, optIn, linkVars>>

AnyOptimizeResponse == UNION {RoutingResponses(n) : n \in 1..(MaxStops - 2)}

NextOptimize ==
  \/ OptimizeCall
  \/ \E resp \in AnyOptimizeResponse : OptimizeRoutesRespond(resp)

SpecOptimize == InitOptimize /\ [][NextOptimize]_vars

(***************************************************************************)
(* The link builders on their own: one call of one builder on a stop list  *)
(* drawn from LinkStops.                                                   *)
(***************************************************************************)
Repeat(c, n) == [i \in 1..n |-> c]

NoLocation == [present |-> FALSE, lat |-> 0, lng |-> 0]

LinkStop(address, location, place_id) ==
  [address |-> address, location |-> location, place_id |-> place_id]

\* an address with characters that are escaped, coordinates and an id
lAddr == LinkStop(<<"V", "i", "a", " ", "1", ",", " ", "(", "R", "o", "m", "e", ")">>,
                  [present |-> TRUE, lat |-> 41, lng |-> 12], <<"p", "1">>)

\* an address of 700 characters: three of them exceed the limit
lLong == LinkStop(Repeat("a", 700), NoLocation, <<"p", "2">>)

\* coordinates only
lLoc == LinkStop(<<>>, [present |-> TRUE, lat |-> 41, lng |-> 12], <<>>)

\* neither an address nor coordinates
lBare == LinkStop(<<>>, NoLocation, <<"p", "4">>)

\* an address with which the standard walking link of this stop alone is
\* exactly UrlLimit characters long
lEdge == LinkStop(Repeat("a", 931), NoLocation, <<"e">>)

LinkStops == {lAddr, lLong, lLoc, lBare, lEdge}

LinkInputs ==
  {[tag |-> "call", builder |-> b, places |-> l, travelMode |-> m] :
     b \in {"generateGoogleMapsUrl", "generateOptimizedMapsUrl"},
     l \in SeqsUpTo(LinkStops, MaxLinkStops),
     m \in {"WALK", "BICYCLE", "bogus"}}

InitLink ==
  /\ caller = "none"
  /\ llm = "none"
  /\ routeResponse = [places |-> Undefined, city |-> S_Rome]
  /\ gpc = "none"
  /\ vpc = "idle"
  /\ fetches = <<>>
  /\ promises = <<>>
  /\ batchResult = NoResult
  /\ routeFetch = NoFetch
  /\ sequencerCalls = <<>>
  /\ genResult = NoResult
  /\ scoreIn = NoScore
  /\ scoreOut = NoScore
  /\ verifyIn = NoScore
  /\ verifyOut = NoScore
  /\ simIn = NoScore
  /\ simOut = NoScore
  /\ optIn = NoScore
  /\ optFetch = NoFetch
  /\ optOut = NoResult
  /\ linkIn \in LinkInputs
  /\ linkOut = NoScore

ApplyLink ==
  /\ linkIn # NoScore
  /\ linkOut = NoScore
  /\ linkOut' = IF linkIn.builder = "generateGoogleMapsUrl"
                THEN GenerateGoogleMapsUrl(linkIn.places, linkIn.travelMode)
                ELSE GenerateOptimizedMapsUrl(linkIn.places, linkIn.travelMode)
  /\ UNCHANGED <<caller, llm, routeResponse, batchVars, genVars, scoreIn,
                 scoreOut, verifyIn, verifyOut, simVars, optVars, linkIn>>

NextLink == ApplyLink

SpecLink == InitLink /\ [][NextLink]_vars

(***************************************************************************)
(* Properties.                                                             *)
(***************************************************************************)
\* the search of a mention failed: non-success response, network error or
\* zero results
SearchFailed(resp) ==
  \/ resp.kind \in {"network_error", "not_ok"}
  \/ resp.kind = "ok" /\ (~Truthy(resp.places) \/ Len(resp.places.items) = 0)

\* verifyAllPlaces has returned on a well-formed mention list
ReturnedValid == vpc = "returned" /\ ~InvalidRouteResponse(routeResponse)

Mentions == routeResponse.places.items

\* some candidate of the response makes the scorer raise
SomeCandidateThrows(place, city, resp) ==
  \E k \in 1..Len(resp.places.items) :
     CalculateMatchConfidence(place, resp.places.items[k], city).threw

\* C1: a mention whose search fails (non-success response, network error,
\* zero results) gets verified = false, confidence = 0 and a failure reason,
\* and every other mention of the batch gets the outcome its own search
\* response determines: the batch succeeds and a sibling whose candidates
\* were scored carries its own best match, confidence and verdict.
C1_FailureIsolated ==
  ReturnedValid =>
    /\ batchResult.success
    /\ Len(batchResult.verificationResults) = Len(Mentions)
    /\ \A i \in 1..Len(Mentions) :
         LET out  == batchResult.verificationResults[i]
             resp == fetches[i].resp
         IN /\ SearchFailed(resp) =>
                 /\ out.verified = FALSE
                 /\ out.confidence = 0
                 /\ out.error \notin {NoError, ""}
            /\ (~SearchFailed(resp)
                /\ ~SomeCandidateThrows(Mentions[i], routeResponse.city, resp)) =>
                 LET best == FindBestMatch(Mentions[i], resp.places.items,
                                           routeResponse.city)
                 IN /\ out.error = NoError
                    /\ out.confidence = best.confidence
                    /\ out.verifiedPlace = best.place
                    /\ out.verified = (best.confidence > Weight(300))

\* a batch where one search raised a network error, one had no result and a
\* sibling was verified
C1_Witness ==
  /\ ReturnedValid
  /\ \E i, j, k \in 1..Len(fetches) :
       /\ fetches[i].resp.kind = "network_error"
       /\ fetches[j].resp.kind = "ok" /\ SearchFailed(fetches[j].resp)
       /\ ~SearchFailed(fetches[k].resp)
       /\ batchResult.verificationResults[k].verified

\* C2: verifyAllPlaces returns only when every search has completed or
\* failed, and its result list holds one outcome per mention at the
\* mention's index: the outcome of that mention's own promise.
C2_JoinAllComplete ==
  ReturnedValid =>
    /\ \A i \in 1..Len(fetches) : fetches[i].state = "done"
    /\ batchResult.success
    /\ Len(batchResult.verificationResults) = Len(Mentions)
    /\ \A i \in 1..Len(Mentions) :
         /\ promises[i].state = "fulfilled"
         /\ batchResult.verificationResults[i] = promises[i].value
         /\ batchResult.verificationResults[i].originalPlace = Mentions[i]
         /\ (batchResult.verificationResults[i].error = NoError)
              => ~SearchFailed(fetches[i].resp)

\* a returned batch of different mentions whose first search failed and
\* whose last succeeded
C2_Witness ==
  /\ ReturnedValid
  /\ Len(Mentions) >= 2
  /\ Mentions[1] # Mentions[Len(Mentions)]
  /\ SearchFailed(fetches[1].resp)
  /\ batchResult.verificationResults[Len(Mentions)].verified

\* verifyPlace has been applied to verifyIn
Verified == verifyOut # NoScore

HasCandidates(resp) ==
  resp.kind = "ok" /\ Truthy(resp.places) /\ Len(resp.places.items) > 0

\* C3: an outcome is verified exactly when the search returned at least one
\* candidate and the outcome's confidence is strictly above 0.3; when every
\* candidate was scored that confidence is the largest candidate score.
C3_VerifiedIffAboveThreshold ==
  Verified =>
    LET out  == verifyOut.value
        resp == verifyIn.resp
    IN /\ verifyOut.state = "fulfilled"
       /\ out.verified <=> (HasCandidates(resp) /\ out.confidence > Weight(300))
       /\ (HasCandidates(resp)
           /\ ~SomeCandidateThrows(verifyIn.place, verifyIn.city, resp)) =>
            /\ \A k \in 1..Len(resp.places.items) :
                 CalculateMatchConfidence(verifyIn.place, resp.places.items[k],
                                          verifyIn.city).value <= out.confidence
            /\ \/ out.confidence = 0
               \/ \E k \in 1..Len(resp.places.items) :
                    CalculateMatchConfidence(verifyIn.place, resp.places.items[k],
                                             verifyIn.city).value = out.confidence

\* the best candidate scores exactly 0.3 and the mention is unverified
C3_Witness ==
  /\ Verified
  /\ HasCandidates(verifyIn.resp)
  /\ verifyOut.value.confidence = Weight(300)
  /\ verifyOut.value.verified = FALSE
  /\ verifyOut.value.verifiedPlace.tag = "place"

\* C4 (as claimed): the outcome carries a resolved candidate exactly when
\* the search returned at least one candidate, also when every candidate
\* scores 0.
C4_ResolvedIffCandidates ==
  Verified =>
    (verifyOut.value.verifiedPlace.tag = "place" <=> HasCandidates(verifyIn.resp))

\* C5: verifyAllPlaces reports a batch-level failure exactly when the
\* mention list is missing or not an array; then no search is issued and
\* nothing is computed.  Failed searches never make the batch fail.
C5_BatchFailureOnlyOnInvalidInput ==
  /\ InvalidRouteResponse(routeResponse) => (fetches = <<>> /\ promises = <<>>)
  /\ vpc = "returned" =>
       /\ (batchResult.success = FALSE) <=> InvalidRouteResponse(routeResponse)
       /\ InvalidRouteResponse(routeResponse)
            => batchResult = Failure(ErrInvalidFormat)

\* verifyAllPlaces has rejected a mention list that is not an array
C5_Witness ==
  /\ vpc = "returned"
  /\ routeResponse.places.tag = "object"
  /\ batchResult = Failure(ErrInvalidFormat)
  /\ fetches = <<>>

\* mentions whose search succeeded with zero candidates
ZeroCandidateMentions ==
  {i \in 1..Len(fetches) :
     fetches[i].resp.kind = "ok" /\ ~HasCandidates(fetches[i].resp)}

\* C6: for a batch of N >= 1 mentions the summary has total = N,
\* verifiedCount = the number of verified outcomes, unverifiedCount =
\* total - verifiedCount and verificationRate = verifiedCount / total * 100;
\* so unverifiedCount is at least the number of zero-candidate mentions.
C6_SummaryCounts ==
  (ReturnedValid /\ Len(Mentions) >= 1) =>
    LET results == batchResult.verificationResults
        summary == batchResult.summary
        v       == Cardinality({i \in 1..Len(results) : results[i].verified})
        n       == Len(Mentions)
    IN /\ summary.totalPlaces = n
       /\ summary.verifiedPlaces = v
       /\ summary.unverifiedPlaces = n - v
       /\ ~summary.verificationRate.nan
       /\ summary.verificationRate.den > 0
       /\ summary.verificationRate.num * n = v * 100 * summary.verificationRate.den
       /\ summary.unverifiedPlaces >= Cardinality(ZeroCandidateMentions)

\* a batch with a verified mention, an unverified one and a mention without
\* candidates
C6_Witness ==
  /\ ReturnedValid
  /\ Len(Mentions) >= 2
  /\ batchResult.summary.verifiedPlaces >= 1
  /\ batchResult.summary.unverifiedPlaces >= 1
  /\ ZeroCandidateMentions # {}

\* C7 (as claimed): for an empty mention array the verification rate of the
\* summary is a defined number, not the result of 0 / 0.
C7_RateDefinedOnEmptyBatch ==
  (vpc = "returned" /\ batchResult.success /\ batchResult.summary.totalPlaces = 0)
    => ~batchResult.summary.verificationRate.nan

\* the batch returned a result list without a verified outcome
ZeroVerified ==
  /\ vpc = "returned"
  /\ batchResult.success
  /\ \A i \in 1..Len(batchResult.verificationResults) :
        ~batchResult.verificationResults[i].verified

\* C8: when the batch completes with zero verified mentions, generatePlaces
\* returns the failure "No places could be verified", never a success with
\* an empty stop list, and neither optimizeRouteOrder nor a link builder is
\* invoked.
C8_NothingVerifiedIsFailure ==
  /\ (caller = "generatePlaces" /\ ZeroVerified) =>
       /\ sequencerCalls = <<>>
       /\ routeFetch = NoFetch
       /\ gpc = "done" => genResult = Failure(ErrNothingVerified)
  /\ (gpc = "done" /\ genResult.success) =>
       /\ Len(genResult.places) > 0
       /\ ~ZeroVerified

\* generatePlaces has returned the failure for a batch of mentions none of
\* which was verified
C8_Witness ==
  /\ gpc = "done"
  /\ ZeroVerified
  /\ Len(fetches) >= 2
  /\ genResult = Failure(ErrNothingVerified)
  /\ sequencerCalls = <<>>

\* calculateMatchConfidence has been applied to scoreIn
Scored == scoreOut # NoScore

\* C9: the score returned by calculateMatchConfidence lies in [0, 1], also
\* when every bonus applies.
C9_ScoreInUnitInterval ==
  (Scored /\ ~scoreOut.threw) => (0 <= scoreOut.value /\ scoreOut.value <= Unit)

\* containment, word bonus, city, status, rating and review count together
\* exceed 1 and the returned score is 1
C9_Witness ==
  /\ Scored
  /\ ~scoreOut.threw
  /\ scoreOut.value = Unit
  /\ RawConfidence(scoreIn.originalPlace, scoreIn.apiPlace, scoreIn.city) > Unit
  /\ scoreIn.apiPlace.rating >= 40
  /\ scoreIn.apiPlace.userRatingCount >= 1000
  /\ scoreIn.apiPlace.businessStatus = "OPERATIONAL"

\* the mention name equals the candidate's display name after case folding
NamesEqualFolded ==
  /\ scoreIn.apiPlace.displayName.kind \in {"string", "object"}
  /\ ToLowerCase(scoreIn.originalPlace.name)
       = ToLowerCase(scoreIn.apiPlace.displayName.text)

\* C10: when the mention name and the candidate display name are equal
\* after case folding the score is at least 0.60, whatever the address, the
\* city, the status, the rating and the rating count.
C10_ExactNameAtLeastSixty ==
  (Scored /\ NamesEqualFolded) =>
    (~scoreOut.threw /\ scoreOut.value >= Weight(600))

\* names that differ only in case, no other signal: the score is 0.60
C10_Witness ==
  /\ Scored
  /\ NamesEqualFolded
  /\ scoreIn.originalPlace.name # scoreIn.apiPlace.displayName.text
  /\ scoreIn.apiPlace.displayName.text # ToLowerCase(scoreIn.apiPlace.displayName.text)
  /\ scoreOut.value = Weight(600)

\* every candidate of the call in verifyIn was scored
AllScored ==
  /\ Verified
  /\ HasCandidates(verifyIn.resp)
  /\ ~SomeCandidateThrows(verifyIn.place, verifyIn.city, verifyIn.resp)

\* the scores of the candidates of the call in verifyIn, in list order
CandidateScores ==
  [k \in 1..Len(verifyIn.resp.places.items) |->
     CalculateMatchConfidence(verifyIn.place, verifyIn.resp.places.items[k],
                              verifyIn.city).value]

\* the lowest index that attains the largest of the scores
FirstMaxIndex(scores) ==
  CHOOSE k \in DOMAIN scores :
    /\ \A j \in DOMAIN scores : scores[j] <= scores[k]
    /\ \A j \in 1..(k - 1) : scores[j] < scores[k]

\* C11 (as claimed): for a non-empty candidate list the best match is the
\* candidate at the lowest index that attains the largest score, and the
\* retained confidence is that largest score, also when it is 0.
C11_BestIsFirstMaximum ==
  AllScored =>
    LET k == FirstMaxIndex(CandidateScores) IN
    /\ verifyOut.value.confidence = CandidateScores[k]
    /\ verifyOut.value.verifiedPlace = BestPlace(verifyIn.resp.places.items[k])

\* the search of the call in verifyIn succeeded with an empty candidate list
EmptyCandidateList ==
  /\ verifyIn.resp.kind = "ok"
  /\ IsArray(verifyIn.resp.places)
  /\ Len(verifyIn.resp.places.items) = 0

\* C12 (as claimed): resolving a mention whose candidate list is empty
\* yields no best candidate, confidence 0, and alternatives that are
\* present and equal to the empty list.
C12_EmptyListGivesEmptyAlternatives ==
  (Verified /\ EmptyCandidateList) =>
    /\ verifyOut.value.verifiedPlace \in {Null, Undefined}
    /\ verifyOut.value.confidence = 0
    /\ verifyOut.value.alternativeMatches = Array(<<>>)

\* C13: for a non-empty candidate list of length n whose candidates were
\* all scored, the alternatives are exactly the first min(3, n) candidates
\* in their original order, whatever their scores and whichever candidate
\* is the best match.
C13_AlternativesAreFirstThree ==
  AllScored =>
    LET items == verifyIn.resp.places.items
        alts  == verifyOut.value.alternativeMatches
        n     == Len(items)
    IN /\ IsArray(alts)
       /\ Len(alts.items) = (IF n < 3 THEN n ELSE 3)
       /\ \A k \in 1..Len(alts.items) : alts.items[k] = items[k]

\* four candidates of which the fourth is the best match: the alternatives
\* are the first three and do not contain the best match
C13_Witness ==
  /\ AllScored
  /\ Len(verifyIn.resp.places.items) = 4
  /\ FirstMaxIndex(CandidateScores) = 4
  /\ CandidateScores[1] < CandidateScores[2]
  /\ verifyOut.value.verifiedPlace.tag = "place"
  /\ verifyOut.value.verifiedPlace.id = verifyIn.resp.places.items[4].id
  /\ Len(verifyOut.value.alternativeMatches.items) = 3
  /\ \A k \in 1..3 :
       verifyOut.value.alternativeMatches.items[k].id # verifyOut.value.verifiedPlace.id

\* calculateStringSimilarity has been applied to simIn
Compared == simOut # NoScore

\* C14 (as claimed): the similarity is 0 whenever either argument is the
\* empty string, and 1 whenever the arguments are equal and non-empty.
C14_ZeroOnAnyEmpty ==
  Compared =>
    /\ (simIn.str1 = <<>> \/ simIn.str2 = <<>>) => simOut.value = 0
    /\ (simIn.str1 = simIn.str2 /\ simIn.str1 # <<>>) => simOut.value = Unit

\* C14 (amended): the similarity is 1 whenever the arguments are equal,
\* also when both are the empty string, and 0 whenever exactly one of them
\* is the empty string.
C14_OneOnEqualZeroOnOneEmpty ==
  Compared =>
    /\ simIn.str1 = simIn.str2 => simOut.value = Unit
    /\ ((simIn.str1 = <<>>) # (simIn.str2 = <<>>)) => simOut.value = 0

\* both arguments are the empty string and the similarity is 1
C14_Witness ==
  /\ Compared
  /\ simIn.str1 = <<>>
  /\ simIn.str2 = <<>>
  /\ simOut.value = Unit

\* the unit-cost edit distance (insertion, deletion, substitution) by its
\* recursive definition
RECURSIVE Levenshtein(_, _)
Levenshtein(a, b) ==
  IF Len(a) = 0 THEN Len(b)
  ELSE IF Len(b) = 0 THEN Len(a)
  ELSE LET deletion     == Levenshtein(Tail(a), b) + 1
           insertion    == Levenshtein(a, Tail(b)) + 1
           substitution == Levenshtein(Tail(a), Tail(b))
                           + (IF Head(a) = Head(b) THEN 0 ELSE 1)
       IN IF deletion <= insertion /\ deletion <= substitution THEN deletion
          ELSE IF insertion <= substitution THEN insertion
          ELSE substitution

\* C15: for two different non-empty strings the similarity is
\* 1 - editDistance / max(length), with the unit-cost Levenshtein distance,
\* and it lies in [0, 1].
C15_SimilarityIsNormalisedLevenshtein ==
  (Compared /\ simIn.str1 # simIn.str2 /\ simIn.str1 # <<>> /\ simIn.str2 # <<>>) =>
    LET longest == IF Len(simIn.str1) >= Len(simIn.str2)
                   THEN Len(simIn.str1) ELSE Len(simIn.str2)
    IN /\ simOut.value
            = Unit - (Unit \div longest) * Levenshtein(simIn.str1, simIn.str2)
       /\ 0 <= simOut.value
       /\ simOut.value <= Unit

\* two strings of lengths 2 and 3 at distance 2 (a substitution and an
\* insertion): similarity 1/3
C15_Witness ==
  /\ Compared
  /\ Len(simIn.str1) = 2
  /\ Len(simIn.str2) = 3
  /\ simIn.str1[1] = simIn.str2[1]
  /\ simIn.str1[2] # simIn.str2[2]
  /\ simIn.str1[2] # simIn.str2[3]
  /\ simOut.value = Unit \div 3

\* C16: the similarity is symmetric: the call on (b, a) returns what the
\* call on (a, b) returns, for all strings.
C16_SimilaritySymmetric ==
  Compared => simOut.value = simOut.swapped

\* two different strings of different lengths, neither empty, with a
\* similarity strictly between 0 and 1 in both orders
C16_Witness ==
  /\ Compared
  /\ Len(simIn.str1) > Len(simIn.str2)
  /\ Len(simIn.str2) > 0
  /\ simOut.value > 0
  /\ simOut.value < Unit
  /\ simOut.swapped = simOut.value

\* optimizeRouteOrder has returned on optIn
Optimized == optOut # NoResult

\* the stops of the input that carry a place_id, in input order
ValidStops == SelectSeq(optIn.places, LAMBDA stop : stop.place_id # "")

\* C17 (as claimed): when fewer than 2 or exactly 2 stops of the input
\* carry an identifier (other stops may lack one), the result is not
\* optimized, its stop list is the input list, in input order and with no
\* stop removed, and the routing service is not called.
C17_FewValidStopsKeepInput ==
  (optIn # NoScore /\ Len(ValidStops) <= 2) =>
    /\ optFetch = NoFetch
    /\ Optimized =>
         /\ optOut.optimized = FALSE
         /\ optOut.places = optIn.places

\* C18: with at least 3 valid stops and a routing response that carries the
\* permutation p, the result is optimized and its stop list is the first
\* valid stop, then the intermediates in the order intermediates[p[0]],
\* intermediates[p[1]], ..., then the last valid stop: a permutation of the
\* valid stops with the first and the last in place.
C18_ReorderedByPermutation ==
  (Optimized /\ optFetch.state = "done" /\ optFetch.resp.kind = "ok"
             /\ Len(ValidStops) >= 3) =>
    LET p   == optFetch.resp.index
        out == optOut.places
        n   == Len(ValidStops)
    IN /\ optOut.optimized = TRUE
       /\ Len(out) = n
       /\ out[1] = ValidStops[1]
       /\ out[n] = ValidStops[n]
       /\ \A k \in 1..Len(p) : out[k + 1] = ValidStops[p[k] + 2]
       /\ \A i \in 1..n : Cardinality({k \in 1..n : out[k] = ValidStops[i]}) = 1

\* five valid stops A..E and the permutation [2, 0, 1]: the result is
\* A, D, B, C, E
C18_Witness ==
  /\ Optimized
  /\ optFetch.state = "done"
  /\ optFetch.resp.kind = "ok"
  /\ optFetch.resp.index = <<2, 0, 1>>
  /\ Len(ValidStops) = 5
  /\ [k \in 1..5 |-> optOut.places[k].place_id] = <<"A", "D", "B", "C", "E">>

\* the routing call of optIn failed: network error, non-success status,
\* empty route list or no permutation in the route
RoutingFailed ==
  /\ optFetch.state = "done"
  /\ optFetch.resp.kind \in {"network_error", "not_ok", "no_routes", "no_index"}

PositionIn(list, x) == CHOOSE i \in 1..Len(list) : list[i] = x

C20_DurationMinutesDistance ==
  (Optimized /\ optFetch.state = "done" /\ optFetch.resp.kind = "ok") =>
    \A n \in RouteSeconds :
      optFetch.resp.duration = DurationString(n) =>
        /\ optOut.optimization.totalDuration = n
        /\ 60 * optOut.optimization.minutes - 30 <= n
        /\ n <= 60 * optOut.optimization.minutes + 29
        /\ optFetch.resp.distanceMeters # NullNum =>
             optOut.optimization.totalDistance = optFetch.resp.distanceMeters

\* a link builder has been applied to the non-empty stop list of linkIn
LinkBuilt == linkOut # NoScore /\ Len(linkIn.places) > 0

\* the value the claim expects for a stop: its encoded address, else its
\* coordinates
ExpectedValue(place) ==
  IF place.address # <<>> THEN UrlEncode(place.address)
  ELSE IF place.location.present
  THEN NumberToString(place.location.lat) \o <<"%", "2", "C">>
       \o NumberToString(place.location.lng)
  ELSE <<>>

\* the link has the parameter with a non-empty value taken from the stop
HasEndpoint(link, param, place) ==
  /\ ExpectedValue(place) # <<>>
  /\ Includes(link, param \o ExpectedValue(place) \o <<"&">>)

\* the stop has an address or coordinates
HasValue(place) == place.address # <<>> \/ place.location.present

\* C21: for every non-empty stop list whose first and last stop have an
\* address or coordinates, the builder returns the assembled link when it
\* is at most 2048 characters long and otherwise a link with the travel
\* mode but without waypoints and place ids, and in both cases the link has
\* an origin value and a destination value taken from the first and the
\* last stop (address, else coordinates).
C21_LinkKeepsOriginAndDestination ==
  (LinkBuilt /\ HasValue(linkIn.places[1])
             /\ HasValue(linkIn.places[Len(linkIn.places)])) =>
    /\ linkOut.tag = "link"
    /\ Len(linkOut.assembled) <= 2048 => linkOut.returned = linkOut.assembled
    /\ Len(linkOut.assembled) > 2048 =>
         /\ ~Includes(linkOut.returned, <<"w", "a", "y", "p", "o", "i", "n", "t">>)
         /\ ~Includes(linkOut.returned, <<"p", "l", "a", "c", "e", "_", "i", "d">>)
         /\ Includes(linkOut.returned,
                     <<"&", "t", "r", "a", "v", "e", "l", "m", "o", "d", "e", "=">>)
    /\ HasEndpoint(linkOut.returned, <<"&", "o", "r", "i", "g", "i", "n", "=">>,
                   linkIn.places[1])
    /\ HasEndpoint(linkOut.returned,
                   <<"&", "d", "e", "s", "t", "i", "n", "a", "t", "i", "o", "n", "=">>,
                   linkIn.places[Len(linkIn.places)])

\* three stops whose assembled link is longer than 2048 characters, the
\* last one with coordinates only: the link returned is the simpler one and
\* has the coordinates as destination
C21_Witness ==
  /\ LinkBuilt
  /\ Len(linkIn.places) = 3
  /\ linkIn.places[3].address = <<>>
  /\ linkIn.places[3].location.present
  /\ Len(linkOut.assembled) > 2048
  /\ Len(linkOut.returned) <= 2048
  /\ linkOut.returned # linkOut.assembled
  /\ Includes(linkOut.returned,
              <<"&", "d", "e", "s", "t", "i", "n", "a", "t", "i", "o", "n", "=",
                "4", "1", "%", "2", "C", "1", "2", "&">>)

\* the call in verifyIn is the example: "National Museum" in "Lisbon"
\* against the single operational candidate "Museu Nacional" at
\* "Lisboa, Portugal"
MuseumExample ==
  /\ Verified
  /\ verifyIn.place.name = S_NationalMuseum
  /\ verifyIn.city = S_Lisbon
  /\ HasCandidates(verifyIn.resp)
  /\ Len(verifyIn.resp.places.items) = 1
  /\ verifyIn.resp.places.items[1].displayName.text = S_MuseuNacional
  /\ verifyIn.resp.places.items[1].formattedAddress = S_LisboaPortugal
  /\ verifyIn.resp.places.items[1].businessStatus = "OPERATIONAL"

\* C22: in the example the exact and the containment test both fail, and
\* the confidence is the similarity-based name score (0.6 times the
\* similarity 1/15) plus the whole word bonus (0.15) plus the region credit
\* (0.15) plus the status bonus (0.05): 0.39, above 0.3, so the outcome is
\* verified.
C22_MuseumExampleVerified ==
  MuseumExample =>
    LET name  == ToLowerCase(S_NationalMuseum)
        api   == ToLowerCase(S_MuseuNacional)
        \* edit distance 14 over the longer length 15: similarity 1/15
        score == Weight(600) \div 15
    IN /\ name # api
       /\ ~Includes(name, api)
       /\ ~Includes(api, name)
       /\ verifyOut.value.confidence
            = score + Weight(150) + Weight(150) + Weight(50)
       /\ verifyOut.value.confidence = Weight(390)
       /\ verifyOut.value.confidence > Weight(300)
       /\ verifyOut.value.verified = TRUE

\* the example has been verified against "Museu Nacional"
C22_Witness ==
  /\ MuseumExample
  /\ verifyOut.value.verified = TRUE
  /\ verifyOut.value.verifiedPlace.tag = "place"
  /\ verifyOut.value.verifiedPlace.name = S_MuseuNacional

\* verifyAllPlaces has been called with a list of mentions
BatchStarted == vpc # "idle" /\ ~InvalidRouteResponse(routeResponse)

\* the searches of the batch, one per mention and in the mentions' order,
\* each with the query made by sep between the name and the city
OneSearchPerMention(sep) ==
  LET places == routeResponse.places.items IN
  /\ Len(fetches) = Len(places)
  /\ \A i \in 1..Len(places) :
       /\ fetches[i].query = places[i].name \o sep \o routeResponse.city
       /\ fetches[i].state \in {"inflight", "done"}

\* C23 as stated: one search per mention, the query being the name directly
\* followed by the city, all initiated when verifyAllPlaces waits.
C23_QueryIsNameThenCity ==
  BatchStarted => OneSearchPerMention(<<>>)

\* C23: from the moment verifyAllPlaces waits, and at every later moment,
\* there is exactly one search per mention, its query is the mention's name,
\* one blank and the city, and every search has been initiated (it is in
\* flight or has completed): no search is initiated after a response.
C23_OneSearchPerMentionBeforeWaiting ==
  BatchStarted => OneSearchPerMention(<<" ">>)

\* verifyAllPlaces waits with three searches in flight and no response yet
C23_Witness ==
  /\ vpc = "awaiting"
  /\ Len(fetches) = 3
  /\ \A i \in 1..3 : fetches[i].state = "inflight"
  /\ fetches[1].query = S_Bar \o <<" ">> \o routeResponse.city

\* the signals of the score other than the name
OtherSignals ==
    AddressConfidence(scoreIn.apiPlace, scoreIn.city)
  + StatusConfidence(scoreIn.apiPlace)
  + QualityConfidence(scoreIn.apiPlace)

\* C24: the word bonus is not added on the exact or on the containment
\* path: with equal folded names the name contributes exactly 0.60, and
\* with one folded name containing the other exactly 0.50, to the capped
\* sum of the signals.
C24_NoWordBonusOnExactOrContainment ==
  (Scored /\ ~scoreOut.threw) =>
    LET name == ToLowerCase(scoreIn.originalPlace.name)
        api  == ToLowerCase(DisplayNameText(scoreIn.apiPlace))
    IN /\ name = api =>
            scoreOut.value = Min2(Unit, Weight(600) + OtherSignals)
       /\ (name # api /\ (Includes(name, api) \/ Includes(api, name))) =>
            scoreOut.value = Min2(Unit, Weight(500) + OtherSignals)

\* the call in verifyIn has one candidate, whose displayName is missing or
\* the empty string
NamelessCall ==
  /\ Verified
  /\ Len(verifyIn.place.name) > 0
  /\ HasCandidates(verifyIn.resp)
  /\ Len(verifyIn.resp.places.items) = 1
  /\ LET dn == verifyIn.resp.places.items[1].displayName
     IN dn.kind = "missing" \/ (dn.kind = "string" /\ dn.text = <<>>)

\* the address contains the city or one of the region aliases
CityOrAliasInAddress(address, city) ==
  \E t \in {ToLowerCase(city), S_portugal, S_lisboa, S_lisbon} :
     Includes(ToLowerCase(address), t)

C25_OutcomeDependsOnOwnSearchOnly ==
  BatchStarted =>
    LET places == routeResponse.places.items IN
    \A i \in 1..Len(places) :
       LET own == VerifyPlace(places[i], routeResponse.city, fetches[i].resp) IN
       /\ fetches[i].state = "inflight" => promises[i] = Pending
       /\ fetches[i].state = "done" => promises[i] = own
       /\ vpc = "returned" =>
            /\ batchResult.success
            /\ batchResult.verificationResults[i] = own.value
            /\ \A j \in 1..Len(places) :
                 (places[j] = places[i] /\ fetches[j].resp = fetches[i].resp) =>
                   batchResult.verificationResults[j]
                     = batchResult.verificationResults[i]

\* the third mention is verified and the second has failed on the network
\* while the search of the first is still in flight
C25_Witness ==
  /\ vpc = "awaiting"
  /\ Len(fetches) = 3
  /\ fetches[1].state = "inflight"
  /\ fetches[2].state = "done"
  /\ fetches[2].resp.kind = "network_error"
  /\ promises[2].state = "fulfilled"
  /\ promises[2].value.verified = FALSE
  /\ fetches[3].state = "done"
  /\ promises[3].state = "fulfilled"
  /\ promises[3].value.verified = TRUE

\* every mention of the batch is resolved
AllResolved ==
  \A i \in 1..Len(promises) : promises[i].state = "fulfilled"

\* C26: when every issued search completes or fails, a batch that waits
\* eventually returns, successfully, with every mention resolved and one
\* outcome per mention; a mention is pending only while the batch waits,
\* so every pending mention is eventually resolved; and a resolved mention
\* stays resolved, with the same outcome.
C26_BatchEventuallyReturns ==
  /\ (vpc = "awaiting") ~>
       (/\ vpc = "returned"
        /\ AllResolved
        /\ batchResult.success
        /\ Len(batchResult.verificationResults) = Len(routeResponse.places.items)
        /\ batchResult.summary.totalPlaces = Len(routeResponse.places.items))
  /\ [](\A i \in 1..Len(promises) :
          promises[i] = Pending => vpc = "awaiting")
  /\ [][\A i \in 1..Len(promises) :
          promises[i] # Pending =>
            (Len(promises') = Len(promises) /\ promises'[i] = promises[i])]_vars

\* a batch of three has returned after a search failure, an empty result and
\* a match
C26_Witness ==
  /\ vpc = "returned"
  /\ batchResult.success
  /\ Len(promises) = 3
  /\ AllResolved
  /\ fetches[1].resp.kind = "not_ok"
  /\ fetches[2].resp = [kind |-> "ok", places |-> Undefined]
  /\ promises[3].value.verified = TRUE
  /\ batchResult.summary.totalPlaces = 3

\* number of positions of seq that hold x
Occurrences(seq, x) == Cardinality({k \in 1..Len(seq) : seq[k] = x})

\* every stop of stops is a verified outcome of the batch, taken at most as
\* often as the batch holds it
VerifiedStopsOfBatch(stops) ==
  \A k \in 1..Len(stops) :
     /\ stops[k].verification.verified = TRUE
     /\ Occurrences(stops, stops[k])
          <= Occurrences([i \in 1..Len(promises) |->
                            EnhancedPlace(promises[i].value)], stops[k])

\* C27: in generatePlaces the sequencer and the routing service are called
\* only when verifyAllPlaces has returned with every mention resolved,
\* every stop passed to the sequencer is a verified outcome of the batch,
\* and every stop of the final itinerary, reordered or not, is a verified
\* outcome of the batch that occurs no more often than in the batch.
C27_OnlyVerifiedStopsRouted ==
  caller = "generatePlaces" =>
    /\ (Len(sequencerCalls) > 0 \/ routeFetch.state # "none") =>
         (vpc = "returned" /\ AllResolved /\ Len(sequencerCalls) = 1)
    /\ \A c \in 1..Len(sequencerCalls) :
         /\ Len(sequencerCalls[c]) > 0
         /\ VerifiedStopsOfBatch(sequencerCalls[c])
    /\ (genResult # NoResult /\ genResult.success) =>
         /\ Len(sequencerCalls) = 1
         /\ Len(genResult.places) > 0
         /\ VerifiedStopsOfBatch(genResult.places)

\* a batch of three verified mentions: the routing service has answered
\* with an order and the final itinerary is the reordered list of the three
\* verified stops
C27_Witness ==
  /\ caller = "generatePlaces"
  /\ genResult # NoResult
  /\ genResult.success
  /\ routeFetch.state = "done"
  /\ genResult.optimizationResult.optimized
  /\ Len(promises) = 3
  /\ Len(sequencerCalls) = 1
  /\ Len(sequencerCalls[1]) = 3
  /\ Len(genResult.places) = 3

=============================================================================
